---- MODULE Spec2Model ----
(***************************************************************************)
(* hikari.interactions.commands: the Command and CommandInteraction        *)
(* entities and the operations they forward to the REST and cache          *)
(* capabilities of their app.                                              *)
(*                                                                         *)
(* Python values are tagged tuples, so that None, UNDEFINED, a Snowflake   *)
(* and a string are all distinct and comparable.  A coroutine is modelled  *)
(* by two operators: the segment that runs up to its await (it yields the  *)
(* REST call it awaits, or finishes at once) and the segment that runs     *)
(* when the awaited call has returned or raised.                           *)
(***************************************************************************)
EXTENDS Integers, Sequences, FiniteSets, TLC

VARIABLES
    cmd,      \* the Command the operations are called on
    inter,    \* the CommandInteraction the operations are called on
    debug,    \* Python's __debug__: assert statements run iff it is true
    cache,    \* the app's cache, owned and written by the gateway side
    tasks,    \* the coroutines in flight on the event loop
    last,     \* the operation that finished last, with what it did
    member,   \* the legacy Member the operations are called on
    registry, \* the state registry of the fabric, owned by the gateway side
    accessed  \* what the caller got from the member's guild, oldest first

vars == <<cmd, inter, debug, cache, tasks, last, member, registry, accessed>>

\* The variables of the legacy Member, which no operation of a command or of
\* an interaction touches.
orm == <<member, registry, accessed>>

\* The variables of the commands and the interactions, which no operation of
\* the legacy Member touches.
interactions == <<cmd, inter, debug, cache, tasks>>

\* The number of coroutines that can be in flight at once.
MaxTasks == 2

\* The number of results of the guild accessor the caller keeps.
MaxAccesses == 2

----------------------------------------------------------------------------
(* Python values *)

None == <<"None">>
UNDEFINED == <<"UNDEFINED">>
Snowflake(n) == <<"Snowflake", n>>
Str(s) == <<"str", s>>
List(s) == <<"list", s>>
Obj(class, n) == <<class, n>>

\* bool(v) for the values guild_id takes: None and the integer 0 are falsy.
Truthy(v) == v # None /\ v # Snowflake(0)

\* bases.ResponseType
MESSAGE_CREATE == 4
DEFERRED_MESSAGE_CREATE == 5
ResponseType(n) == <<"ResponseType", n>>

COMMAND_RESPONSE_TYPES == {ResponseType(MESSAGE_CREATE), ResponseType(DEFERRED_MESSAGE_CREATE)}

\* The classes of hikari.channels that the operations test with isinstance.
TextChannelClasses == {"GuildTextChannel", "GuildNewsChannel", "DMChannel"}
GuildChannelClasses == {"GuildTextChannel", "GuildNewsChannel", "GuildVoiceChannel"}

\* isinstance(v, classes): None is an instance of none of them.
IsInstance(v, classes) == v[1] \in classes

AssertionError == <<"AssertionError">>

----------------------------------------------------------------------------
(* Calls, replies and outcomes *)

\* A call on the REST capability, its arguments bound to the parameters in
\* the capability's order (positional and keyword arguments alike).
Call(method, params) == [method |-> method, params |-> params]
NoCall == Call("", <<>>)

\* A lookup on the cache capability with the value it gave.
Lookup(method, key, result) == [method |-> method, key |-> key, result |-> result]

Return(v) == [kind |-> "return", value |-> v]
Raise(e) == [kind |-> "raise", value |-> e]
NoReply == [kind |-> "", value |-> None]

\* The segment of a coroutine up to its await.
Await(call) == [kind |-> "await", call |-> call, value |-> None]
Finish(outcome) == [kind |-> outcome.kind, call |-> NoCall, value |-> outcome.value]

\* What a synchronous operation did.
Did(rest, lookups, outcome) ==
    [rest |-> rest, lookups |-> lookups, kind |-> outcome.kind, value |-> outcome.value]

----------------------------------------------------------------------------
(* The cache capability *)

\* A lookup gives the entry held for the id, and None on a miss.
cache_get_guild_channel(c, id) ==
    IF id \in DOMAIN c.channels THEN c.channels[id] ELSE None
cache_get_guild(c, id) ==
    IF id \in DOMAIN c.guilds THEN c.guilds[id] ELSE None

\* The REST capability: what an awaited call can return, and the errors of
\* hikari.errors it can raise.
RestResults(method) ==
    CASE method \in {"fetch_application_command", "edit_application_command"} ->
            {Obj("Command", 1), Obj("Command", 2)}
      [] method = "delete_application_command" -> {None}
      [] method = "fetch_channel" ->
            {Obj("GuildTextChannel", 1), Obj("DMChannel", 1), Obj("GuildVoiceChannel", 1)}
      [] method = "fetch_guild" -> {Obj("RESTGuild", 1), Obj("RESTGuild", 2)}
      [] OTHER -> {}

RestErrors == {<<"NotFoundError">>, <<"ForbiddenError">>}

\* The builders the REST capability hands out, one per response type asked for.
interaction_message_builder(type) == Obj("InteractionMessageBuilder", type[2])
interaction_deferred_builder(type) == Obj("InteractionDeferredBuilder", type[2])

----------------------------------------------------------------------------
(* The entities *)

RESTApp == [cache_aware |-> FALSE]
Apps == {[cache_aware |-> b] : b \in BOOLEAN}

Commands ==
    { [app |-> RESTApp,
       id |-> Snowflake(34123123),
       application_id |-> Snowflake(65234123),
       name |-> Str("Name"),
       description |-> Str("very descript"),
       options |-> List(<<>>),
       guild_id |-> g] : g \in {None, Snowflake(0), Snowflake(31231235)} }

\* The fields of Command as they are declared: whether the generated __eq__
\* compares the field and whether the generated __hash__ hashes it.  This is
\* the class as it would be if `name' had been left to be compared.
Command_fields_name_compared ==
    << [name |-> "app",            eq |-> FALSE, hash |-> FALSE],
       [name |-> "id",             eq |-> TRUE,  hash |-> TRUE],
       [name |-> "application_id", eq |-> FALSE, hash |-> FALSE],
       [name |-> "name",           eq |-> TRUE,  hash |-> FALSE],
       [name |-> "description",    eq |-> FALSE, hash |-> FALSE],
       [name |-> "options",        eq |-> FALSE, hash |-> FALSE],
       [name |-> "guild_id",       eq |-> FALSE, hash |-> FALSE] >>

Command_fields ==
    << [name |-> "app",            eq |-> FALSE, hash |-> FALSE],
       [name |-> "id",             eq |-> TRUE,  hash |-> TRUE],
       [name |-> "application_id", eq |-> FALSE, hash |-> FALSE],
       [name |-> "name",           eq |-> FALSE, hash |-> FALSE],
       [name |-> "description",    eq |-> FALSE, hash |-> FALSE],
       [name |-> "options",        eq |-> FALSE, hash |-> FALSE],
       [name |-> "guild_id",       eq |-> FALSE, hash |-> FALSE] >>

Bool(b) == <<"bool", b>>
Tuple(s) == <<"tuple", s>>

\* The values of the fields a generated method takes into account, in the
\* order of declaration.
FieldValues(self, flag) ==
    LET Pick[i \in 0..Len(Command_fields)] ==
            IF i = 0 THEN <<>>
            ELSE IF Command_fields[i][flag]
                 THEN Append(Pick[i - 1], self[Command_fields[i].name])
                 ELSE Pick[i - 1]
    IN  Pick[Len(Command_fields)]

\* The __eq__ that attrs generates: the tuples of the compared fields of two
\* instances of the class are equal.
Command_eq(self, other) == FieldValues(self, "eq") = FieldValues(other, "eq")

\* hash() of an int is the int itself below 2^61 - 1, which every id of the
\* model is; hash() of a tuple is a function of the hashes of its items.
PyHash(v) == IF v[1] = "Snowflake" THEN v[2] ELSE v

\* The __hash__ that attrs generates: the hash of the tuple of the hashed
\* fields, salted with the class.
Command_hash(self) ==
    LET hashed == FieldValues(self, "hash")
    IN  <<"Command">> \o [i \in DOMAIN hashed |-> PyHash(hashed[i])]

\* The commands that are compared with each other: every field takes two
\* values.
ComparedCommands ==
    { [app |-> a,
       id |-> Snowflake(i),
       application_id |-> Snowflake(65234123),
       name |-> Str(n),
       description |-> Str(d),
       options |-> List(o),
       guild_id |-> g] :
         a \in Apps, i \in {34123123, 34123124}, n \in {"Name", "new name"},
         d \in {"very descript", "very descrypt"}, o \in {<<>>, <<"option">>},
         g \in {None, Snowflake(31231235)} }

CommandInteractions ==
    { [app |-> a,
       id |-> Snowflake(2312312),
       application_id |-> Snowflake(43123),
       channel_id |-> Snowflake(3123123),
       guild_id |-> g,
       command_id |-> Snowflake(3123123),
       command_name |-> Str("OKOKOK")] :
         a \in Apps, g \in {None, Snowflake(0), Snowflake(5412231)} }

\* What the cache can hold for the ids the interactions name.
Caches ==
    { [channels |-> ch, guilds |-> gu] :
        ch \in [{Snowflake(3123123)} ->
                  {None} \cup {Obj(k, 3123123) : k \in GuildChannelClasses}],
        gu \in [{Snowflake(5412231)} -> {None, Obj("GatewayGuild", 5412231)}] }

\* The arguments edit() is called with: each left out (UNDEFINED) or given.
EditArgs ==
    { <<UNDEFINED, UNDEFINED, UNDEFINED>>,
      <<Str("new name"), Str("very descrypt"), List(<<"option">>)>>,
      <<None, UNDEFINED, List(<<"option">>)>>,
      <<Str("new name"), UNDEFINED, UNDEFINED>> }

----------------------------------------------------------------------------
(* Command *)

\* fetch_self as it would be if it passed guild_id on as it is held.
fetch_self_raw_guild(self) ==
    Await(Call("fetch_application_command",
               <<self.application_id, self.id, self.guild_id>>))

fetch_self(self) ==
    Await(Call("fetch_application_command",
               <<self.application_id, self.id,
                 IF self.guild_id = None THEN UNDEFINED ELSE self.guild_id>>))

fetch_self_resumed(reply) == reply

\* edit as it would be if it took a name of None for one left out.
edit_none_as_undefined(self, name, description, options) ==
    Await(Call("edit_application_command",
               <<self.application_id, self.id,
                 IF self.guild_id = None THEN UNDEFINED ELSE self.guild_id,
                 IF name = None THEN UNDEFINED ELSE name, description, options>>))

edit(self, name, description, options) ==
    Await(Call("edit_application_command",
               <<self.application_id, self.id,
                 IF self.guild_id = None THEN UNDEFINED ELSE self.guild_id,
                 name, description, options>>))

edit_resumed(reply) == reply

delete(self) ==
    Await(Call("delete_application_command",
               <<self.application_id, self.id,
                 IF self.guild_id = None THEN UNDEFINED ELSE self.guild_id>>))

\* delete as it would be if it swallowed the error of its call.
delete_resumed_swallowing(reply) == Return(None)

delete_resumed(reply) == IF reply.kind = "return" THEN Return(None) ELSE reply

----------------------------------------------------------------------------
(* CommandInteraction *)

\* build_response as it would be if it asked for the deferred type.
build_response_deferred_type(self) ==
    LET type == ResponseType(DEFERRED_MESSAGE_CREATE)
    IN  Did(<<Call("interaction_message_builder", <<type>>)>>, <<>>,
            Return(interaction_message_builder(type)))

build_response(self) ==
    LET type == ResponseType(MESSAGE_CREATE)
    IN  Did(<<Call("interaction_message_builder", <<type>>)>>, <<>>,
            Return(interaction_message_builder(type)))

build_deferred_response(self) ==
    LET type == ResponseType(DEFERRED_MESSAGE_CREATE)
    IN  Did(<<Call("interaction_deferred_builder", <<type>>)>>, <<>>,
            Return(interaction_deferred_builder(type)))

fetch_channel(self) == Await(Call("fetch_channel", <<self.channel_id>>))

fetch_channel_resumed(reply, dbg) ==
    IF reply.kind = "return" /\ dbg /\ ~IsInstance(reply.value, TextChannelClasses)
    THEN Raise(AssertionError)
    ELSE reply

get_channel(self, c, dbg) ==
    IF self.app.cache_aware
    THEN LET channel == cache_get_guild_channel(c, self.channel_id)
             looked == <<Lookup("get_guild_channel", self.channel_id, channel)>>
         IN  IF dbg /\ ~IsInstance(channel, {"GuildTextChannel", "GuildNewsChannel"})
             THEN Did(<<>>, looked, Raise(AssertionError))
             ELSE Did(<<>>, looked, Return(channel))
    ELSE Did(<<>>, <<>>, Return(None))

fetch_command(self) ==
    Await(Call("fetch_application_command",
               <<self.application_id, self.id,
                 IF Truthy(self.guild_id) THEN self.guild_id ELSE UNDEFINED>>))

fetch_command_resumed(reply) == reply

fetch_guild(self) ==
    IF ~Truthy(self.guild_id)
    THEN Finish(Return(None))
    ELSE Await(Call("fetch_guild", <<self.guild_id>>))

fetch_guild_resumed(reply) == reply

\* get_guild as it would be if it fetched the guild on a cache miss.
get_guild_fetching_on_miss(self, c) ==
    IF Truthy(self.guild_id) /\ self.app.cache_aware
    THEN LET guild == cache_get_guild(c, self.guild_id)
             looked == <<Lookup("get_guild", self.guild_id, guild)>>
         IN  IF guild = None
             THEN Did(<<Call("fetch_guild", <<self.guild_id>>)>>, looked,
                      Return(Obj("RESTGuild", 1)))
             ELSE Did(<<>>, looked, Return(guild))
    ELSE Did(<<>>, <<>>, Return(None))

get_guild(self, c) ==
    IF Truthy(self.guild_id) /\ self.app.cache_aware
    THEN LET guild == cache_get_guild(c, self.guild_id)
         IN  Did(<<>>, <<Lookup("get_guild", self.guild_id, guild)>>, Return(guild))
    ELSE Did(<<>>, <<>>, Return(None))

----------------------------------------------------------------------------
(* The event loop *)

Slots == 1..MaxTasks
IdleTask == [state |-> "idle", op |-> "", args |-> <<>>, call |-> NoCall]
Idle(slots) == {t \in slots : tasks[t].state = "idle"}
InFlight == {t \in Slots : tasks[t].state = "awaiting"}

\* The record of a finished operation: the REST calls and the cache lookups
\* it made, the reply its awaited call got, and how it ended.
Finished(op, args, rest, lookups, reply, kind, value) ==
    [op |-> op, args |-> args, rest |-> rest, lookups |-> lookups,
     reply |-> reply, kind |-> kind, value |-> value]

Nothing == Finished("", <<>>, <<>>, <<>>, NoReply, "", None)

\* A synchronous operation runs to its end in one step of the loop.
RunSync(op, did) ==
    /\ last' = Finished(op, <<>>, did.rest, did.lookups, NoReply, did.kind, did.value)
    /\ UNCHANGED <<cmd, inter, debug, cache, tasks, orm>>

\* A coroutine runs up to its await, and is then in flight (in one of `slots')
\* with the call it awaits; one that returns before any await has finished
\* at once.  The caller has taken the result of the operation before.
RunAsync(slots, op, args, step) ==
    IF step.kind = "await"
    THEN /\ Idle(slots) # {}
         /\ LET t == CHOOSE i \in Idle(slots) : \A j \in Idle(slots) : i <= j
            IN  tasks' = [tasks EXCEPT ![t] = [state |-> "awaiting", op |-> op,
                                               args |-> args, call |-> step.call]]
         /\ last' = Nothing
         /\ UNCHANGED <<cmd, inter, debug, cache, orm>>
    ELSE /\ last' = Finished(op, args, <<>>, <<>>, NoReply, step.kind, step.value)
         /\ UNCHANGED <<cmd, inter, debug, cache, tasks, orm>>

\* The segment of the coroutine that runs once its awaited call has replied.
Resumed(op, reply, dbg) ==
    CASE op = "fetch_self" -> fetch_self_resumed(reply)
      [] op = "edit" -> edit_resumed(reply)
      [] op = "delete" -> delete_resumed(reply)
      [] op = "fetch_channel" -> fetch_channel_resumed(reply, dbg)
      [] op = "fetch_command" -> fetch_command_resumed(reply)
      [] op = "fetch_guild" -> fetch_guild_resumed(reply)

\* Resume as it would be if edit wrote the new name into the command itself.
Resume_editing_in_place(t, reply) ==
    LET task == tasks[t]
        outcome == Resumed(task.op, reply, debug)
        edited == task.op = "edit" /\ outcome.kind = "return" /\ task.args[1] # UNDEFINED
    IN  /\ last' = Finished(task.op, task.args, <<task.call>>, <<>>, reply,
                            outcome.kind, outcome.value)
        /\ tasks' = [tasks EXCEPT ![t] = IdleTask]
        /\ cmd' = IF edited THEN [cmd EXCEPT !.name = task.args[1]] ELSE cmd
        /\ UNCHANGED <<inter, debug, cache, orm>>

Resume(t, reply) ==
    LET task == tasks[t]
        outcome == Resumed(task.op, reply, debug)
    IN  /\ last' = Finished(task.op, task.args, <<task.call>>, <<>>, reply,
                            outcome.kind, outcome.value)
        /\ tasks' = [tasks EXCEPT ![t] = IdleTask]
        /\ UNCHANGED <<cmd, inter, debug, cache, orm>>

----------------------------------------------------------------------------
(* hikari.orm.models.members: the legacy Member, its fabric and the state *)
(* registry of the fabric                                                  *)

PyInt(n) == <<"int", n>>
\* A string of digits, such as the raw id "11111", by the number it denotes.
Digits(n) == <<"digits", n>>
\* A raw mapping of the platform that describes the entity of the given id.
Dict(id) == <<"dict", id>>
Datetime(y, mo, d, h, mi, s, us) == <<"datetime", y, mo, d, h, mi, s, us>>
KeyError(key) == <<"KeyError", key>>
ValueError == <<"ValueError">>

\* The timestamps the platform sends, and what they parse to (UTC).
parse_iso_8601(raw) ==
    CASE raw = Str("2015-04-26T06:26:56.936000+00:00") ->
            Return(Datetime(2015, 4, 26, 6, 26, 56, 936000))
      [] raw = Str("2019-05-17T06:26:56.936000+00:00") ->
            Return(Datetime(2019, 5, 17, 6, 26, 56, 936000))
      [] OTHER -> Raise(ValueError)

\* The state registry: the canonical user of a raw user mapping (or of a
\* user object, which is canonical already), the guild it holds for an id,
\* the role of a raw role id.
parse_user(reg, raw) == IF raw[1] = "dict" THEN Obj("User", raw[2]) ELSE raw
get_guild_by_id(reg, id) == reg.guilds[id]
get_role_by_id(reg, raw) == Obj("Role", raw[2])

Registries ==
    { [guilds |-> g] :
        g \in [{PyInt(1234)} -> {None, Obj("Guild", 1), Obj("Guild", 2)}] }

\* The keys a raw member mapping can hold, and the value under each.
MemberKeys ==
    {"nick", "roles", "joined_at", "premium_since", "user", "deaf", "mute", "guild_id"}

JoinedAtValues == {Str("2015-04-26T06:26:56.936000+00:00"), Str("potato")}
UserValues == {Dict(123456), Obj("User", 123456)}

RawValue(key, joined_at, user) ==
    CASE key = "nick" -> Str("foobarbaz")
      [] key = "roles" ->
            List(<<Digits(11111), Digits(22222), Digits(33333), Digits(44444)>>)
      [] key = "joined_at" -> joined_at
      [] key = "premium_since" -> Str("2019-05-17T06:26:56.936000+00:00")
      [] key = "user" -> user
      [] key = "deaf" -> Bool(FALSE)
      [] key = "mute" -> Bool(TRUE)
      [] key = "guild_id" -> PyInt(1234)

Payloads ==
    { [key \in keys |-> RawValue(key, j, u)] :
        keys \in SUBSET MemberKeys, j \in JoinedAtValues, u \in UserValues }

Guilds == {None, Obj("Guild", 12345)}

\* payload[key] as it would be if a key that is missing read as None.
payload_item_defaulting(payload, key) ==
    IF key \in DOMAIN payload THEN Return(payload[key]) ELSE Return(None)

\* payload[key] and payload.get(key, default)
payload_item(payload, key) ==
    IF key \in DOMAIN payload THEN Return(payload[key]) ELSE Raise(KeyError(key))

payload_get(payload, key, default) ==
    IF key \in DOMAIN payload THEN payload[key] ELSE default

\* The nick as it would be if a missing nick read as the empty string.
Member_nick_or_empty(payload) == payload_get(payload, "nick", Str(""))

Member_nick(payload) == payload_get(payload, "nick", None)

Member_roles(reg, payload) ==
    LET raw == payload_get(payload, "roles", List(<<>>))[2]
    IN  List([i \in DOMAIN raw |-> get_role_by_id(reg, raw[i])])

Member_premium_since(payload) ==
    IF "premium_since" \in DOMAIN payload
    THEN parse_iso_8601(payload["premium_since"])
    ELSE Return(None)

\* The member before it is constructed.
NoMember ==
    [guild |-> None, guild_id |-> None, nick |-> None, roles |-> None,
     joined_at |-> None, premium_since |-> None, user |-> None]

\* Member(fabric, guild, payload): the member, or the error the construction
\* ends with, and the calls made to the state registry.
Member_init(reg, guild, payload) ==
    LET joined_raw == payload_item(payload, "joined_at")
        joined_at == IF joined_raw.kind = "raise" THEN joined_raw
                     ELSE IF joined_raw.value = None THEN Raise(ValueError)
                     ELSE parse_iso_8601(joined_raw.value)
        premium_since == Member_premium_since(payload)
        user_raw == payload_item(payload, "user")
        user == parse_user(reg, user_raw.value)
    IN  IF joined_at.kind = "raise" THEN Did(<<>>, <<>>, joined_at)
        ELSE IF premium_since.kind = "raise" THEN Did(<<>>, <<>>, premium_since)
        ELSE IF user_raw.kind = "raise" THEN Did(<<>>, <<>>, user_raw)
        ELSE Did(<<>>, <<Lookup("parse_user", user_raw.value, user)>>,
                 Return([guild |-> guild,
                         guild_id |-> payload_get(payload, "guild_id", None),
                         nick |-> Member_nick(payload),
                         roles |-> Member_roles(reg, payload),
                         joined_at |-> joined_at.value,
                         premium_since |-> premium_since.value,
                         user |-> user]))

\* update_state as it would be if it kept the nick when it is given none.
update_state_keeping_nick(self, new_roles, new_nick) ==
    [self EXCEPT !.roles = new_roles,
                 !.nick = IF new_nick = None THEN @ ELSE new_nick]

update_state(self, new_roles, new_nick) ==
    [self EXCEPT !.roles = new_roles, !.nick = new_nick]

\* The guild accessor as it would be if it resolved the guild_id whenever
\* the raw mapping had one.
Member_guild_by_id_first(self, reg) ==
    IF self.guild_id # None
    THEN LET guild == get_guild_by_id(reg, self.guild_id)
         IN  Did(<<>>, <<Lookup("get_guild_by_id", self.guild_id, guild)>>, Return(guild))
    ELSE Did(<<>>, <<>>, Return(self.guild))

\* member.guild: the guild the member was constructed with, or else what the
\* state registry holds for the guild_id now.
Member_guild(self, reg) ==
    IF self.guild # None
    THEN Did(<<>>, <<>>, Return(self.guild))
    ELSE LET guild == get_guild_by_id(reg, self.guild_id)
         IN  Did(<<>>, <<Lookup("get_guild_by_id", self.guild_id, guild)>>, Return(guild))

\* The roles and the nicks update_state is called with.
NewRoles ==
    {List(<<>>), List(<<Obj("Role", 1), Obj("Role", 2), Obj("Role", 3)>>),
     List(<<Obj("Role", 2)>>)}
NewNicks == {None, Str("potato"), Str("foobarbaz")}

NoRegistry == [guilds |-> [id \in {PyInt(1234)} |-> None]]

----------------------------------------------------------------------------
(* Actions *)

Init ==
    /\ cmd \in Commands
    /\ inter \in CommandInteractions
    /\ \/ debug = TRUE     \* the interpreter as it runs by default
       \/ debug = FALSE    \* python -O
    /\ cache \in Caches
    /\ tasks = [t \in Slots |-> IdleTask]
    /\ last = Nothing
    /\ member = NoMember
    /\ registry = NoRegistry
    /\ accessed = <<>>

CallFetchSelf(slots) == RunAsync(slots, "fetch_self", <<>>, fetch_self(cmd))

CallEdit(slots) ==
    \E a \in EditArgs : RunAsync(slots, "edit", a, edit(cmd, a[1], a[2], a[3]))

CallDelete(slots) == RunAsync(slots, "delete", <<>>, delete(cmd))

CallBuildResponse == RunSync("build_response", build_response(inter))

CallBuildDeferredResponse ==
    RunSync("build_deferred_response", build_deferred_response(inter))

CallFetchChannel(slots) ==
    RunAsync(slots, "fetch_channel", <<>>, fetch_channel(inter))

CallGetChannel == RunSync("get_channel", get_channel(inter, cache, debug))

CallFetchCommand(slots) ==
    RunAsync(slots, "fetch_command", <<>>, fetch_command(inter))

CallFetchGuild(slots) == RunAsync(slots, "fetch_guild", <<>>, fetch_guild(inter))

CallGetGuild == RunSync("get_guild", get_guild(inter, cache))

\* The REST capability answers a call in flight: with a result ...
RestReturns ==
    \E t \in InFlight : \E v \in RestResults(tasks[t].call.method) :
        Resume(t, Return(v))

\* ... or with an error.
RestRaises ==
    \E t \in InFlight : \E e \in RestErrors : Resume(t, Raise(e))

\* The owner of the cache replaces what it holds.
CacheWrite ==
    /\ cache' \in Caches \ {cache}
    /\ UNCHANGED <<cmd, inter, debug, tasks, last, orm>>

\* One operation at a time: the caller awaits each before the next.
OneSlot == {1}

Next ==
    \/ CallFetchSelf(OneSlot)
    \/ CallEdit(OneSlot)
    \/ CallDelete(OneSlot)
    \/ CallBuildResponse
    \/ CallBuildDeferredResponse
    \/ CallFetchChannel(OneSlot)
    \/ CallGetChannel
    \/ CallFetchCommand(OneSlot)
    \/ CallFetchGuild(OneSlot)
    \/ CallGetGuild
    \/ RestReturns
    \/ RestRaises
    \/ CacheWrite

Spec == Init /\ [][Next]_vars

\* Several operations in flight at once, on a Command and a CommandInteraction
\* of a guild, with the cache left alone.
InitConc ==
    /\ cmd \in {c \in Commands : Truthy(c.guild_id)}
    /\ inter \in {i \in CommandInteractions : Truthy(i.guild_id) /\ ~i.app.cache_aware}
    /\ debug = TRUE
    /\ cache \in {c \in Caches : \A id \in DOMAIN c.channels : c.channels[id] = None}
    /\ tasks = [t \in Slots |-> IdleTask]
    /\ last = Nothing
    /\ member = NoMember
    /\ registry = NoRegistry
    /\ accessed = <<>>

NextConc ==
    \/ CallFetchSelf(Slots)
    \/ CallEdit(Slots)
    \/ CallDelete(Slots)
    \/ CallFetchChannel(Slots)
    \/ CallFetchCommand(Slots)
    \/ CallFetchGuild(Slots)
    \/ RestReturns
    \/ RestRaises

SpecConc == InitConc /\ [][NextConc]_vars

\* Commands compared with each other and hashed: `cmd == other' and
\* `hash(cmd) == hash(other)'.
CallCompare ==
    \E other \in ComparedCommands :
        /\ last' = Finished("compare", <<other>>, <<>>, <<>>, NoReply, "return",
                            Tuple(<<Bool(Command_eq(cmd, other)),
                                    Bool(Command_hash(cmd) = Command_hash(other))>>))
        /\ UNCHANGED <<cmd, inter, debug, cache, tasks, orm>>

InitEq ==
    /\ cmd \in ComparedCommands
    /\ inter \in {i \in CommandInteractions : Truthy(i.guild_id) /\ ~i.app.cache_aware}
    /\ debug = TRUE
    /\ cache \in {c \in Caches : \A id \in DOMAIN c.channels \cup DOMAIN c.guilds :
                                    (c.channels @@ c.guilds)[id] = None}
    /\ tasks = [t \in Slots |-> IdleTask]
    /\ last = Nothing
    /\ member = NoMember
    /\ registry = NoRegistry
    /\ accessed = <<>>

NextEq == CallCompare

SpecEq == InitEq /\ [][NextEq]_vars

\* The legacy Member: constructed, before anything else, from a guild (or
\* the guild_id of the raw mapping) and a raw mapping, then updated and read.
CallMember ==
    /\ member = NoMember
    /\ last = Nothing
    /\ \E guild \in Guilds, payload \in Payloads :
          /\ guild # None \/ "guild_id" \in DOMAIN payload
          /\ LET did == Member_init(registry, guild, payload)
             IN  /\ member' = IF did.kind = "return" THEN did.value ELSE NoMember
                 /\ last' = Finished("Member", <<guild, payload>>, <<>>, did.lookups,
                                     NoReply, did.kind,
                                     IF did.kind = "return" THEN None ELSE did.value)
    /\ accessed' = <<>>
    /\ UNCHANGED <<registry, interactions>>

CallUpdateState ==
    /\ member # NoMember
    /\ \E new_roles \in NewRoles, new_nick \in NewNicks :
          /\ member' = update_state(member, new_roles, new_nick)
          /\ last' = Finished("update_state", <<new_roles, new_nick>>, <<>>, <<>>,
                              NoReply, "return", None)
    /\ UNCHANGED <<registry, accessed, interactions>>

CallMemberGuild ==
    /\ member # NoMember
    /\ LET did == Member_guild(member, registry)
       IN  /\ last' = Finished("guild", <<>>, <<>>, did.lookups, NoReply,
                               did.kind, did.value)
           /\ accessed' = IF Len(accessed) < MaxAccesses
                          THEN Append(accessed, did.value)
                          ELSE Append(Tail(accessed), did.value)
    /\ UNCHANGED <<member, registry, interactions>>

\* The owner of the state registry replaces what it holds.
RegistryWrite ==
    /\ registry' \in Registries \ {registry}
    /\ UNCHANGED <<member, accessed, last, interactions>>

InitMember ==
    /\ cmd \in {c \in Commands : c.guild_id = None}
    /\ inter \in {i \in CommandInteractions : i.guild_id = None /\ ~i.app.cache_aware}
    /\ debug = TRUE
    /\ cache \in {c \in Caches : \A id \in DOMAIN c.channels \cup DOMAIN c.guilds :
                                    (c.channels @@ c.guilds)[id] = None}
    /\ tasks = [t \in Slots |-> IdleTask]
    /\ last = Nothing
    /\ member = NoMember
    /\ registry \in Registries
    /\ accessed = <<>>

NextMember ==
    \/ CallMember
    \/ CallUpdateState
    \/ CallMemberGuild
    \/ RegistryWrite

SpecMember == InitMember /\ [][NextMember]_vars

----------------------------------------------------------------------------
(* Properties *)

Awaiting(op) == {t \in Slots : tasks[t].state = "awaiting" /\ tasks[t].op = op}

\* The guild argument of a call scoped to the entity's guild: the guild_id
\* when there is one, the UNDEFINED sentinel when there is none.
GuildOrUnspecified(e) == IF e.guild_id = None THEN UNDEFINED ELSE e.guild_id

\* What a coroutine that returns its awaited call's result ends with.
ReturnsReply(r) ==
    r.reply.kind = "return" => r.kind = "return" /\ r.value = r.reply.value

CommandMethod(op) ==
    CASE op = "fetch_self" -> "fetch_application_command"
      [] op = "edit" -> "edit_application_command"
      [] op = "delete" -> "delete_application_command"

C1_Scoped(call, op) ==
    /\ call.method = CommandMethod(op)
    /\ SubSeq(call.params, 1, 3) =
           <<cmd.application_id, cmd.id, GuildOrUnspecified(cmd)>>

\* C1: fetch_self(), edit() and delete() of a Command each issue exactly one
\* call, to the matching REST operation, whose first three arguments are
\* (application_id, id, guild_id or UNDEFINED when guild_id is None);
\* fetch_self and edit return the REST result unchanged, delete returns None.
C1_CommandForwardsScope ==
    /\ \A op \in {"fetch_self", "edit", "delete"} :
          \A t \in Awaiting(op) : C1_Scoped(tasks[t].call, op)
    /\ last.op \in {"fetch_self", "edit", "delete"} =>
          /\ Len(last.rest) = 1
          /\ C1_Scoped(last.rest[1], last.op)
          /\ last.reply.kind = "return" =>
                /\ last.kind = "return"
                /\ last.value = IF last.op = "delete" THEN None ELSE last.reply.value

C1_Witness ==
    /\ last.op = "fetch_self"
    /\ cmd.guild_id = None
    /\ last.rest[1].params[3] = UNDEFINED
    /\ last.kind = "return"
    /\ last.value = Obj("Command", 2)

\* C2: edit(name, description, options) forwards each of the three as the
\* caller gave it: UNDEFINED for one left out, and a given value (None
\* included) as that value.
C2_EditForwardsArguments ==
    /\ \A t \in Awaiting("edit") :
          SubSeq(tasks[t].call.params, 4, 6) = tasks[t].args
    /\ last.op = "edit" =>
          /\ Len(last.rest) = 1
          /\ SubSeq(last.rest[1].params, 4, 6) = last.args

C2_Witness ==
    /\ last.op = "edit"
    /\ last.args = <<None, UNDEFINED, List(<<"option">>)>>
    /\ last.rest[1].params[4] = None
    /\ last.rest[1].params[5] = UNDEFINED

\* C3: fetch_command() asks the REST capability for the command whose id is
\* the interaction's command_id, of the interaction's application.
C3_FetchCommandByCommandId ==
    /\ \A t \in Awaiting("fetch_command") :
          /\ tasks[t].call.method = "fetch_application_command"
          /\ tasks[t].call.params[1] = inter.application_id
          /\ tasks[t].call.params[2] = inter.command_id
    /\ last.op = "fetch_command" =>
          /\ last.rest[1].params[1] = inter.application_id
          /\ last.rest[1].params[2] = inter.command_id

\* C4: fetch_command() issues exactly one fetch_application_command call
\* whose guild argument is guild_id when there is one and UNDEFINED when
\* there is none, and returns that call's result unchanged.
C4_FetchCommandGuildScope ==
    /\ \A t \in Awaiting("fetch_command") :
          /\ tasks[t].call.method = "fetch_application_command"
          /\ tasks[t].call.params[3] = GuildOrUnspecified(inter)
    /\ last.op = "fetch_command" =>
          /\ Len(last.rest) = 1
          /\ last.rest[1].method = "fetch_application_command"
          /\ last.rest[1].params[3] = GuildOrUnspecified(inter)
          /\ ReturnsReply(last)

\* C5: get_channel() returns None for every interaction triggered in a DM
\* (guild_id None), whatever the app can do and the cache holds.
C5_GetChannelNoneInDM ==
    last.op = "get_channel" /\ inter.guild_id = None =>
        last.kind = "return" /\ last.value = None

\* C6: get_channel() on a cache-aware app returns None, and does not fail,
\* when the lookup misses or gives something that is no guild text or news
\* channel.
C6_GetChannelNoneOnMiss ==
    /\ last.op = "get_channel"
    /\ inter.app.cache_aware
    /\ Len(last.lookups) = 1
    /\ ~IsInstance(last.lookups[1].result, {"GuildTextChannel", "GuildNewsChannel"})
    => last.kind = "return" /\ last.value = None

\* C7: get_channel() on a cache-aware app makes exactly one lookup,
\* get_guild_channel(channel_id), and returns exactly its result; on an app
\* with no cache it returns None and makes no lookup.
C7_GetChannelReturnsLookup ==
    last.op = "get_channel" =>
        IF inter.app.cache_aware
        THEN /\ Len(last.lookups) = 1
             /\ last.lookups[1].method = "get_guild_channel"
             /\ last.lookups[1].key = inter.channel_id
             /\ last.kind = "return"
             /\ last.value = last.lookups[1].result
        ELSE /\ last.lookups = <<>>
             /\ last.kind = "return"
             /\ last.value = None

\* C8: fetch_guild() returns None with no REST call when guild_id is None;
\* when there is a guild_id it issues exactly one REST fetch_guild(guild_id)
\* call and returns that call's result.
C8_FetchGuild ==
    /\ \A t \in Awaiting("fetch_guild") :
          /\ inter.guild_id # None
          /\ tasks[t].call = Call("fetch_guild", <<inter.guild_id>>)
    /\ last.op = "fetch_guild" =>
          IF inter.guild_id = None
          THEN last.rest = <<>> /\ last.kind = "return" /\ last.value = None
          ELSE /\ last.rest = <<Call("fetch_guild", <<inter.guild_id>>)>>
               /\ ReturnsReply(last)

\* C9: get_guild() returns None with no lookup when guild_id is None or the
\* app has no cache; otherwise it makes exactly one lookup,
\* get_guild(guild_id), and returns its result, None on a miss.
C9_GetGuild ==
    last.op = "get_guild" =>
        IF inter.guild_id = None \/ ~inter.app.cache_aware
        THEN last.lookups = <<>> /\ last.kind = "return" /\ last.value = None
        ELSE /\ Len(last.lookups) = 1
             /\ last.lookups[1].method = "get_guild"
             /\ last.lookups[1].key = inter.guild_id
             /\ last.kind = "return"
             /\ last.value = last.lookups[1].result

BuilderMethods == {"interaction_message_builder", "interaction_deferred_builder"}

\* C10: build_response() asks for a builder seeded with response type 4
\* (MESSAGE_CREATE) and build_deferred_response() for one seeded with 5
\* (DEFERRED_MESSAGE_CREATE); every response type handed to the REST
\* capability is in COMMAND_RESPONSE_TYPES, which holds exactly 4 and 5.
C10_ResponseTypes ==
    /\ last.op = "build_response" =>
          last.rest = <<Call("interaction_message_builder", <<ResponseType(4)>>)>>
    /\ last.op = "build_deferred_response" =>
          last.rest = <<Call("interaction_deferred_builder", <<ResponseType(5)>>)>>
    /\ \A i \in 1..Len(last.rest) :
          last.rest[i].method \in BuilderMethods =>
              last.rest[i].params[1] \in COMMAND_RESPONSE_TYPES
    /\ COMMAND_RESPONSE_TYPES = {ResponseType(4), ResponseType(5)}

C10_Witness ==
    /\ last.op = "build_deferred_response"
    /\ last.rest[1].params = <<ResponseType(DEFERRED_MESSAGE_CREATE)>>
    /\ last.value = Obj("InteractionDeferredBuilder", 5)

RestForwarding ==
    {"fetch_self", "edit", "delete", "fetch_channel", "fetch_command", "fetch_guild"}

\* C11: when the one REST call of a REST-forwarding operation fails with an
\* error E, the operation fails with that same E: one call was made (no
\* retry), the error is not wrapped, and no result stands in for it.
C11_ErrorPropagates ==
    last.op \in RestForwarding /\ last.reply.kind = "raise" =>
        /\ Len(last.rest) = 1
        /\ last.kind = "raise"
        /\ last.value = last.reply.value

C11_Witness ==
    /\ last.op = "delete"
    /\ last.reply = Raise(<<"ForbiddenError">>)
    /\ last.kind = "raise"
    /\ last.value = <<"ForbiddenError">>

\* C12: no operation fails with an error its collaborator did not raise:
\* when the REST or cache call returns (whatever it returns), so does the
\* operation.
C12_NoErrorOfItsOwn ==
    last.kind = "raise" =>
        last.reply.kind = "raise" /\ last.value = last.reply.value

\* C13: no operation, ended well or not, changes a field of the Command or
\* the CommandInteraction it is called on; an edit leaves the command's own
\* name, description and options as they were.
C13_EntitiesUnchanged == [][cmd' = cmd /\ inter' = inter]_vars

C13_Witness ==
    /\ last.op = "edit"
    /\ last.args = <<Str("new name"), Str("very descrypt"), List(<<"option">>)>>
    /\ last.kind = "return"
    /\ cmd.name = Str("Name")
    /\ cmd.description = Str("very descript")
    /\ cmd.options = List(<<>>)

CacheReading == {"get_channel", "get_guild"}

\* C14: get_channel() and get_guild() issue no REST call and do not write the
\* cache: a step in which one of them runs puts no call in flight and leaves
\* the cache as its owner wrote it, and what it reports holds no REST call.
C14_CacheReadOnly ==
    /\ [](last.op \in CacheReading => last.rest = <<>>)
    /\ [][last' # last /\ last'.op \in CacheReading =>
              cache' = cache /\ tasks' = tasks]_vars
    /\ [][cache' # cache => last' = last /\ tasks' = tasks]_vars

C14_Witness ==
    /\ last.op = "get_guild"
    /\ last.lookups = <<Lookup("get_guild", inter.guild_id, None)>>
    /\ last.rest = <<>>
    /\ cache.guilds[inter.guild_id] # None

\* The call an operation makes takes its arguments from the entity the
\* operation was called on.
C16_OwnCall(op, call) ==
    CASE op \in {"fetch_self", "edit", "delete"} ->
            /\ call.method = CommandMethod(op)
            /\ SubSeq(call.params, 1, 3) =
                   <<cmd.application_id, cmd.id, GuildOrUnspecified(cmd)>>
      [] op = "fetch_channel" ->
            call = Call("fetch_channel", <<inter.channel_id>>)
      [] op = "fetch_command" ->
            /\ call.method = "fetch_application_command"
            /\ call.params[1] = inter.application_id
            /\ call.params[2] \in {inter.id, inter.command_id}
            /\ call.params[3] = GuildOrUnspecified(inter)
      [] op = "fetch_guild" ->
            call = Call("fetch_guild", <<inter.guild_id>>)
      [] OTHER -> FALSE

\* Every operation in flight has made its own call and can be resumed as soon
\* as that call replies, whatever the other operations are doing.
C16_InFlight ==
    \A t \in InFlight :
        /\ C16_OwnCall(tasks[t].op, tasks[t].call)
        /\ \A e \in RestErrors : ENABLED Resume(t, Raise(e))
        /\ \A v \in RestResults(tasks[t].call.method) : ENABLED Resume(t, Return(v))

\* An operation that has finished made one call, its own, got a reply that
\* its own call can give, and ended with that reply.
C16_Completed ==
    last.op \in RestForwarding =>
        /\ Len(last.rest) = 1
        /\ C16_OwnCall(last.op, last.rest[1])
        /\ last.reply.kind = "return" =>
              last.reply.value \in RestResults(last.rest[1].method)

C16_OwnOutcome ==
    last.op \in RestForwarding =>
        /\ last.reply.kind = "raise" =>
              last.kind = "raise" /\ last.value = last.reply.value
        /\ last.reply.kind = "return" =>
              /\ last.kind = "return"
              /\ last.value = IF last.op = "delete" THEN None ELSE last.reply.value

\* C16: with several REST-forwarding operations in flight at once, in every
\* interleaving each one issues exactly one REST call whose arguments come
\* from its own entity, waits on no lock and on no other operation, and ends
\* with the result or the error of its own call.
C16_IndependentOperations == C16_InFlight /\ C16_Completed /\ C16_OwnOutcome

MemberFrame(m) == <<m.user, m.guild, m.guild_id, m.joined_at, m.premium_since>>

\* C17: update_state(new_roles, new_nick) sets the member's roles and nick to
\* exactly the values given and leaves user, guild, joined_at and
\* premium_since as they were; nothing else changes a constructed member, so
\* after any sequence of updates roles and nick are those of the last call.
C17_UpdateState ==
    /\ [](last.op = "update_state" =>
              member.roles = last.args[1] /\ member.nick = last.args[2])
    /\ [][member # NoMember /\ member' # member =>
              /\ last'.op = "update_state"
              /\ member'.roles = last'.args[1]
              /\ member'.nick = last'.args[2]
              /\ MemberFrame(member') = MemberFrame(member)]_vars

C17_Witness ==
    /\ last.op = "update_state"
    /\ last.args = <<List(<<Obj("Role", 1), Obj("Role", 2), Obj("Role", 3)>>), Str("potato")>>
    /\ member.nick = Str("potato")
    /\ member.roles = List(<<Obj("Role", 1), Obj("Role", 2), Obj("Role", 3)>>)
    /\ member.joined_at = Datetime(2015, 4, 26, 6, 26, 56, 936000)
    /\ member.premium_since = Datetime(2019, 5, 17, 6, 26, 56, 936000)
    /\ member.user = Obj("User", 123456)

\* C18: the guild accessor of a member constructed with a guild returns that
\* guild, without asking the registry, even if the raw mapping had a
\* guild_id; the accessor of a member constructed with a guild_id alone asks
\* state_registry.get_guild_by_id at every access and returns what the
\* registry holds then, so a changed answer shows at the next access.
C18_GuildAccessor ==
    /\ [](member.guild # None =>
              /\ \A i \in DOMAIN accessed : accessed[i] = member.guild
              /\ last.op = "guild" => last.lookups = <<>> /\ last.value = member.guild)
    /\ [][/\ member # NoMember /\ member.guild = None
          /\ last'.op = "guild"
          /\ last' # last \/ accessed' # accessed
          => LET now == registry.guilds[member.guild_id]
             IN  /\ last'.lookups = <<Lookup("get_guild_by_id", member.guild_id, now)>>
                 /\ last'.value = now
                 /\ accessed'[Len(accessed')] = now]_vars

C18_Witness ==
    /\ member.guild = None
    /\ member.guild_id = PyInt(1234)
    /\ last.op = "guild"
    /\ accessed = <<Obj("Guild", 1), Obj("Guild", 2)>>
    /\ last.value = Obj("Guild", 2)

\* The raw mapping of the construction that finished last lacks exactly the
\* key given, of those given, and is well formed in what it has.
LacksOnly(key, keys) ==
    /\ last.op = "Member"
    /\ keys \ DOMAIN last.args[2] = {key}
    /\ "joined_at" \in DOMAIN last.args[2] =>
           parse_iso_8601(last.args[2]["joined_at"]).kind = "return"

FailsMissing(key) ==
    last.kind = "raise" /\ last.value = KeyError(key) /\ member = NoMember

\* C19: the construction of a Member from a raw mapping that lacks any one of
\* roles, joined_at and user fails with a missing-key error; no default
\* stands in for the key.
C19_MissingKeyFails ==
    \A key \in {"roles", "joined_at", "user"} :
        LacksOnly(key, {"roles", "joined_at", "user"}) => FailsMissing(key)

\* C19: as amended, the construction of a Member from a raw mapping that
\* lacks joined_at or user fails with a missing-key error and no member is
\* made, while a raw mapping that lacks roles alone is accepted.
C19_RequiredKeys ==
    /\ \A key \in {"joined_at", "user"} :
          LacksOnly(key, {"joined_at", "user"}) => FailsMissing(key)
    /\ LacksOnly("roles", {"roles", "joined_at", "user"}) =>
          last.kind = "return" /\ member # NoMember

C19_Witness ==
    /\ last.op = "Member"
    /\ DOMAIN last.args[2] = MemberKeys \ {"user"}
    /\ last.value = KeyError("user")
    /\ member = NoMember

\* C20: a member constructed from a raw mapping has no nick when the mapping
\* has no nick key and no premium_since when it has no premium_since key;
\* the raw user (or the user object) of the mapping is handed to
\* state_registry.parse_user, whose result is the member's user; and the
\* member is the same whether or not the mapping has deaf and mute.
C20_Construction ==
    last.op = "Member" /\ last.kind = "return" =>
        LET guild == last.args[1]
            payload == last.args[2]
            plain == [key \in DOMAIN payload \ {"deaf", "mute"} |-> payload[key]]
        IN  /\ member.nick = IF "nick" \in DOMAIN payload THEN payload["nick"] ELSE None
            /\ member.premium_since = None <=> "premium_since" \notin DOMAIN payload
            /\ last.lookups = <<Lookup("parse_user", payload["user"], member.user)>>
            /\ member.user = Obj("User", 123456)
            /\ Member_init(registry, guild, plain).kind = "return"
            /\ Member_init(registry, guild, plain).value = member

C20_Witness ==
    /\ last.op = "Member"
    /\ last.kind = "return"
    /\ DOMAIN last.args[2] = {"roles", "joined_at", "user", "deaf", "mute"}
    /\ last.args[2]["user"] = Dict(123456)
    /\ member.nick = None
    /\ member.premium_since = None
    /\ member.user = Obj("User", 123456)

\* The operations whose call carries the guild of the entity.
GuildScoped == {"fetch_self", "edit", "delete", "fetch_command"}

C21_Entity(op) == IF op = "fetch_command" THEN inter ELSE cmd

\* C21: every operation that depends on the guild takes it to be absent
\* exactly when guild_id is None.  fetch_self, edit, delete and fetch_command
\* forward every other guild_id, Snowflake(0) included, as the guild of
\* their call (and UNDEFINED for None); fetch_guild makes its REST call and
\* get_guild (of an app with a cache) its cache lookup with every guild_id
\* that is not None, and neither makes one when it is None.
C21_AbsentExactlyWhenNone ==
    /\ \A t \in InFlight :
          /\ tasks[t].op \in GuildScoped =>
                tasks[t].call.params[3] = GuildOrUnspecified(C21_Entity(tasks[t].op))
          /\ tasks[t].op = "fetch_guild" =>
                tasks[t].call.params = <<inter.guild_id>>
    /\ last.op \in GuildScoped =>
          last.rest[1].params[3] = GuildOrUnspecified(C21_Entity(last.op))
    /\ last.op = "fetch_guild" =>
          last.rest = IF inter.guild_id = None
                      THEN <<>>
                      ELSE <<Call("fetch_guild", <<inter.guild_id>>)>>
    /\ last.op = "get_guild" /\ inter.app.cache_aware =>
          IF inter.guild_id = None
          THEN last.lookups = <<>>
          ELSE /\ Len(last.lookups) = 1
               /\ last.lookups[1].method = "get_guild"
               /\ last.lookups[1].key = inter.guild_id

====
